---- MODULE Spec2Model ----
(***************************************************************************)
(* BrotliProcessor (src/brotli.js): compressWithProgress with its chunked  *)
(* streamCompress path, decompress and getMetrics, as a state machine.     *)
(* A call of the async compressWithProgress is a record whose pc tells     *)
(* where the call is suspended; the processor owns performanceMetrics.     *)
(***************************************************************************)
EXTENDS Integers, Sequences, FiniteSets, TLC

\* ---------------------------------------------------------------- bounds
MaxLen == 3        \* longest input buffer
ByteMax == 1       \* bytes are 0..ByteMax
MaxElapsed == 1    \* performance.now() differences are 1..MaxElapsed
MaxIter == 4       \* chunks a loop with a non-advancing index may collect
NumCalls == 2      \* calls of compressWithProgress that can be pending at once

\* ------------------------------------------------------ program constants
DefaultQuality == 6
DefaultMode == 0
DefaultChunkSize == 1048576
DefaultLgwin == 22

\* Ranges the documentation gives for the options.
MinQuality == 0
MaxQuality == 11
MaxMode == 2
MinLgwin == 10
MaxLgwin == 24

Min(a, b) == IF a <= b THEN a ELSE b
Max(a, b) == IF a >= b THEN a ELSE b

Byte == 0..ByteMax
Elapsed == 1..MaxElapsed

\* Uint8Array values of length 0..MaxLen, filled as the example fills its
\* sample data: the byte at index i is i % 256 or 0.
SampleData(n) ==
    {d \in [1..n -> Byte] : \A k \in 1..n : d[k] \in {(k - 1) % (ByteMax + 1), 0}}
DataInputs == UNION {SampleData(n) : n \in 0..MaxLen}

\* The options argument: an object that has some of the four properties.
NoOptions == [k \in {} |-> 0]
CodecOptionInputs ==
    { NoOptions, [quality |-> 12], [mode |-> 3], [lgwin |-> 25] }
ChunkSizeInputs == (0 - 1)..(MaxLen + 1)
OptionInputs ==
    CodecOptionInputs \cup
    { [quality |-> 9, mode |-> 1, chunkSize |-> s, lgwin |-> 22] :
          s \in ChunkSizeInputs }

\* Destructuring with a default: the property if present, else the default.
Pick(options, name, default) ==
    IF name \in DOMAIN options THEN options[name] ELSE default

\* ----------------------------------------------------------------- codec
\* The 'brotli' package: a stream is a length header followed by the coded
\* bytes; it ends with its last coded byte (the final meta-block).
CodeByte(b) == ByteMax - b

brotliCompress(buffer) ==
    <<Len(buffer)>> \o [k \in 1..Len(buffer) |-> CodeByte(buffer[k])]

\* Outcomes of decoding a buffer: "ok" with the decoded bytes, or "error".
\* Bytes after the end of the first stream are outside the format: the
\* decoder either stops at the end of the stream or rejects the buffer.
DecodeError == [ok |-> FALSE, value |-> <<>>]
brotliDecompress(buffer) ==
    IF Len(buffer) = 0 THEN {DecodeError}
    ELSE LET n == buffer[1]
         IN IF Len(buffer) < n + 1 \/ \E k \in 2..(n + 1) : buffer[k] \notin Byte
            THEN {DecodeError}
            ELSE LET out == [ok |-> TRUE,
                             value |-> [k \in 1..n |-> CodeByte(buffer[k + 1])]]
                 IN IF Len(buffer) = n + 1 THEN {out} ELSE {out, DecodeError}

\* ------------------------------------------------------------ TypedArray
\* data.slice(start, end): negative indices count from the end, both are
\* clamped to the buffer.
slice(data, start, end) ==
    LET len == Len(data)
        from == IF start < 0 THEN Max(len + start, 0) ELSE Min(start, len)
        to == IF end < 0 THEN Max(len + end, 0) ELSE Min(end, len)
    IN [from |-> from, to |-> Max(from, to),
        bytes |-> SubSeq(data, from + 1, to)]

RECURSIVE ConcatReversed(_)
\* The chunks written back to front.
ConcatReversed(chunks) ==
    IF chunks = <<>> THEN <<>> ELSE ConcatReversed(Tail(chunks)) \o Head(chunks)

RECURSIVE Concat(_)
\* new Uint8Array(totalLength) filled chunk after chunk.
Concat(chunks) ==
    IF chunks = <<>> THEN <<>> ELSE Head(chunks) \o Concat(Tail(chunks))

\* Math.min(a / b, 1) for b > 0, as a fraction <<numerator, denominator>>.
One == <<1, 1>>
MinOne(a, b) == IF a >= b THEN One ELSE <<a, b>>
FracLeq(p, q) == p[1] * q[2] <= q[1] * p[2]

\* ----------------------------------------------------------------- state
VARIABLES
    call,                \* per call of compressWithProgress: its frame
    performanceMetrics,  \* this.performanceMetrics
    ret,                 \* what the most recent API call returned to its caller
    lastOk               \* the most recent fulfilled compressWithProgress, as its caller saw it

vars == <<call, performanceMetrics, ret, lastOk>>

Calls == 1..NumCalls

\* overlapped: the call was made while another call was suspended.
\* pc: "idle"     no call made in this frame
\*     "yield"    suspended in streamCompress at the setTimeout promise
\*     "settling" streamCompress has settled, compressWithProgress not resumed
\*     "returned" the promise of compressWithProgress is fulfilled with result
\*     "rejected" the promise of compressWithProgress is rejected with error
IdleCall ==
    [pc |-> "idle", data |-> <<>>, quality |-> 0, mode |-> 0, chunkSize |-> 0,
     lgwin |-> 0, progressCallback |-> FALSE, i |-> 0, chunks |-> <<>>,
     events |-> <<>>, encodeLog |-> <<>>, settled |-> [ok |-> TRUE, value |-> <<>>],
     result |-> <<>>, error |-> "none", cancel |-> FALSE, overlapped |-> FALSE]

NoReturn == [kind |-> "none", input |-> <<>>, ok |-> TRUE, value |-> <<>>]
Pending == [kind |-> "promise", input |-> <<>>, ok |-> TRUE, value |-> <<>>]

InFlight(c) == call[c].pc \in {"yield", "settling"}
NoneInFlight == \A c \in Calls : ~InFlight(c)

\* constructor
Init ==
    /\ call = [c \in Calls |-> IdleCall]
    /\ performanceMetrics =
           [compressionTime |-> 0, decompressionTime |-> 0,
            originalSize |-> 0, compressedSize |-> 0]
    /\ ret = NoReturn
    /\ lastOk = [originalSize |-> 0, compressedSize |-> 0, calls |-> 0]

\* One brotliCompress(buffer, {mode, quality, lgwin}) call as the codec sees it.
EncodeCall(r, piece, fails) ==
    [from |-> piece.from, to |-> piece.to, bytes |-> piece.bytes,
     mode |-> r.mode, quality |-> r.quality, lgwin |-> r.lgwin,
     failed |-> fails]

\* A slice that takes one byte too many.
sliceEndInclusive(i, chunkSize) == i + chunkSize + 1

\* Line 43: the end index handed to data.slice.
sliceEnd(i, chunkSize) == i + chunkSize

\* Progress that counts the bytes before the chunk, not through it.
progressOfStart(i, chunkSize, length) == MinOne(i, length)

\* Line 52: Math.min((i + chunkSize) / data.length, 1).
progressOf(i, chunkSize, length) == MinOne(i + chunkSize, length)

\* The callback given the length of the input chunk, not of its output.
streamCompressStepInputSize(r, fails) ==
    IF r.i < Len(r.data)
    THEN LET chunk == slice(r.data, r.i, sliceEnd(r.i, r.chunkSize))
             logged == Append(r.encodeLog, EncodeCall(r, chunk, fails))
         IN IF fails
            THEN [r EXCEPT !.pc = "settling", !.encodeLog = logged,
                           !.settled = [ok |-> FALSE, value |-> <<>>]]
            ELSE LET compressedChunk == brotliCompress(chunk.bytes)
                     progress == progressOf(r.i, r.chunkSize, Len(r.data))
                 IN [r EXCEPT !.pc = "yield", !.encodeLog = logged,
                              !.chunks = Append(@, compressedChunk),
                              !.events =
                                  IF r.progressCallback
                                  THEN Append(@, [progress |-> progress,
                                                  size |-> Len(chunk.bytes)])
                                  ELSE @]
    ELSE [r EXCEPT !.pc = "settling",
                   !.settled = [ok |-> TRUE, value |-> Concat(r.chunks)]]

\* streamCompress from the loop test at index r.i up to the next suspension:
\* the test, the body (slice, encode, push, callback) and the timer promise,
\* or the concatenation and the return when the test fails.
streamCompressStep(r, fails) ==
    IF r.i < Len(r.data)
    THEN LET chunk == slice(r.data, r.i, sliceEnd(r.i, r.chunkSize))
             logged == Append(r.encodeLog, EncodeCall(r, chunk, fails))
         IN IF fails
            THEN [r EXCEPT !.pc = "settling", !.encodeLog = logged,
                           !.settled = [ok |-> FALSE, value |-> <<>>]]
            ELSE LET compressedChunk == brotliCompress(chunk.bytes)
                     progress == progressOf(r.i, r.chunkSize, Len(r.data))
                 IN [r EXCEPT !.pc = "yield", !.encodeLog = logged,
                              !.chunks = Append(@, compressedChunk),
                              !.events =
                                  IF r.progressCallback
                                  THEN Append(@, [progress |-> progress,
                                                  size |-> Len(compressedChunk)])
                                  ELSE @]
    ELSE [r EXCEPT !.pc = "settling",
                   !.settled = [ok |-> TRUE, value |-> Concat(r.chunks)]]

\* Metrics that add each compression to the totals.
recordCompressionAdding(m, t, data, compressedData) ==
    [m EXCEPT !.compressionTime = t,
              !.originalSize = @ + Len(data),
              !.compressedSize = @ + Len(compressedData)]

\* Lines 30-34: the metrics of a compression that produced compressedData.
recordCompression(m, t, data, compressedData) ==
    [m EXCEPT !.compressionTime = t,
              !.originalSize = Len(data),
              !.compressedSize = Len(compressedData)]

\* The frame of a new call: the arguments with the defaults of line 14.
NewCall(data, options, cb) ==
    [IdleCall EXCEPT !.data = data,
                     !.quality = Pick(options, "quality", DefaultQuality),
                     !.mode = Pick(options, "mode", DefaultMode),
                     !.chunkSize = Pick(options, "chunkSize", DefaultChunkSize),
                     !.lgwin = Pick(options, "lgwin", DefaultLgwin),
                     !.progressCallback = cb]

\* The chunked path taken from len(data) = chunkSize on.
ChunkedFromEqual(r) == r.chunkSize # 0 /\ Len(r.data) >= r.chunkSize

\* Line 20: the chunked path is taken.
Chunked(r) == r.chunkSize # 0 /\ Len(r.data) > r.chunkSize

\* compressWithProgress storing the input size when it is called and the
\* other two fields when it is done.
compressEnterSizeFirst(r, m, fails, t) ==
    IF Chunked(r)
    THEN [call |-> streamCompressStep([r EXCEPT !.i = 0], fails),
          metrics |-> [m EXCEPT !.originalSize = Len(r.data)]]
    ELSE LET whole == [from |-> 0, to |-> Len(r.data), bytes |-> r.data]
             logged == Append(r.encodeLog, EncodeCall(r, whole, fails))
         IN IF fails
            THEN [call |-> [r EXCEPT !.pc = "rejected", !.encodeLog = logged,
                                     !.error = "CompressionFailed"],
                  metrics |-> [m EXCEPT !.originalSize = Len(r.data)]]
            ELSE LET compressedData == brotliCompress(r.data)
                 IN [call |-> [r EXCEPT !.pc = "returned", !.encodeLog = logged,
                                        !.result = compressedData],
                     metrics |-> recordCompression(m, t, r.data, compressedData)]

\* compressWithProgress(data, options, progressCallback) up to its first
\* suspension: the one-shot path runs to completion, the chunked path
\* enters streamCompress.  Returns the frame and the metrics after it.
compressEnter(r, m, fails, t) ==
    IF Chunked(r)
    THEN [call |-> streamCompressStep([r EXCEPT !.i = 0], fails), metrics |-> m]
    ELSE LET whole == [from |-> 0, to |-> Len(r.data), bytes |-> r.data]
             logged == Append(r.encodeLog, EncodeCall(r, whole, fails))
         IN IF fails
            THEN [call |-> [r EXCEPT !.pc = "rejected", !.encodeLog = logged,
                                     !.error = "CompressionFailed"],
                  metrics |-> m]
            ELSE LET compressedData == brotliCompress(r.data)
                 IN [call |-> [r EXCEPT !.pc = "returned", !.encodeLog = logged,
                                        !.result = compressedData],
                     metrics |-> recordCompression(m, t, r.data, compressedData)]

\* What the caller of a fulfilled call holds: the length of the input it
\* passed and of the artifact it got; calls counts 0, 1, 2 (= two or more).
Fulfilled(r, last) ==
    [originalSize |-> Len(r.data), compressedSize |-> Len(r.result),
     calls |-> Min(last.calls + 1, 2)]

\* A call of compressWithProgress with arguments from the given sets.
compressWithProgressOf(c, dataSet, optionSet, callbackSet) ==
    /\ call[c].pc = "idle"
    /\ \E data \in dataSet, options \in optionSet,
          cb \in callbackSet, fails \in BOOLEAN, t \in Elapsed :
          LET after == compressEnter(NewCall(data, options, cb),
                                     performanceMetrics, fails, t)
          IN /\ call' = [call EXCEPT ![c] =
                            [after.call EXCEPT !.overlapped =
                                                  \E k \in Calls : InFlight(k)]]
             /\ performanceMetrics' = after.metrics
             /\ lastOk' = IF after.call.pc = "returned"
                          THEN Fulfilled(after.call, lastOk) ELSE lastOk
    /\ ret' = Pending

compressWithProgress(c) ==
    compressWithProgressOf(c, DataInputs, OptionInputs, BOOLEAN)

\* The chunk accumulator kept on the processor instead of in the call:
\* a chunk pushed by one call lands in the list of every suspended call.
streamCompressShared(c) ==
    /\ call[c].pc = "yield"
    /\ call[c].chunkSize > 0 \/ Len(call[c].chunks) < MaxIter
    /\ \E fails \in BOOLEAN :
          LET step == streamCompressStep(
                          [call[c] EXCEPT !.i = @ + call[c].chunkSize], fails)
              pushed == Len(step.chunks) > Len(call[c].chunks)
          IN call' = [k \in Calls |->
                        IF k = c THEN step
                        ELSE IF pushed /\ call[k].pc = "yield"
                        THEN [call[k] EXCEPT
                                 !.chunks = Append(@, step.chunks[Len(step.chunks)])]
                        ELSE call[k]]
    /\ UNCHANGED <<performanceMetrics, ret, lastOk>>

\* A loop that awaits the timer only after every second chunk.
streamCompressTwoChunks(c) ==
    /\ call[c].pc = "yield"
    /\ call[c].chunkSize > 0 \/ Len(call[c].chunks) < MaxIter
    /\ \E fails \in BOOLEAN :
          LET one == streamCompressStep(
                         [call[c] EXCEPT !.i = @ + call[c].chunkSize], fails)
              two == IF one.pc = "yield"
                     THEN streamCompressStep(
                              [one EXCEPT !.i = @ + call[c].chunkSize], fails)
                     ELSE one
          IN call' = [call EXCEPT ![c] = two]
    /\ UNCHANGED <<performanceMetrics, ret, lastOk>>

\* The timer of line 55 fires: i += chunkSize and the loop goes on.
streamCompress(c) ==
    /\ call[c].pc = "yield"
    /\ call[c].chunkSize > 0 \/ Len(call[c].chunks) < MaxIter
    /\ \E fails \in BOOLEAN :
          call' = [call EXCEPT ![c] =
                      streamCompressStep([@ EXCEPT !.i = @ + call[c].chunkSize],
                                         fails)]
    /\ UNCHANGED <<performanceMetrics, ret, lastOk>>

\* compressWithProgress resumes after `await this.streamCompress(...)`:
\* lines 30-34 when the promise was fulfilled, the catch of line 35 when it
\* was rejected.
\* compressWithProgress recording the input size before it looks at the
\* outcome of streamCompress.
compressResumeEager(r, m, t) ==
    IF r.settled.ok
    THEN [call |-> [r EXCEPT !.pc = "returned", !.result = r.settled.value],
          metrics |-> recordCompression(m, t, r.data, r.settled.value)]
    ELSE [call |-> [r EXCEPT !.pc = "rejected", !.error = "CompressionFailed"],
          metrics |-> [m EXCEPT !.originalSize = Len(r.data)]]

compressResume(r, m, t) ==
    IF r.settled.ok
    THEN [call |-> [r EXCEPT !.pc = "returned", !.result = r.settled.value],
          metrics |-> recordCompression(m, t, r.data, r.settled.value)]
    ELSE [call |-> [r EXCEPT !.pc = "rejected", !.error = "CompressionFailed"],
          metrics |-> m]

compressWithProgressResume(c) ==
    /\ call[c].pc = "settling"
    /\ \E t \in Elapsed :
          LET after == compressResume(call[c], performanceMetrics, t)
          IN /\ call' = [call EXCEPT ![c] = after.call]
             /\ performanceMetrics' = after.metrics
             /\ lastOk' = IF after.call.pc = "returned"
                          THEN Fulfilled(after.call, lastOk) ELSE lastOk
    /\ UNCHANGED ret

\* Buffers a caller may hand to decompress besides the artifacts it got.
BufferInputs == { <<>>, <<0>>, <<2, 0>> }

\* decompress returning the buffer it was given instead of the decoded one.
decompressOutcomeRaw(m, compressedData, decoded, t) ==
    IF decoded.ok
    THEN [ret |-> [kind |-> "decompress", input |-> compressedData,
                   ok |-> TRUE, value |-> compressedData],
          metrics |-> [m EXCEPT !.decompressionTime = t]]
    ELSE [ret |-> [kind |-> "decompress", input |-> compressedData,
                   ok |-> FALSE, value |-> "DecompressionFailed"],
          metrics |-> m]

\* decompress recording the sizes of its buffers as well.
decompressOutcomeSizes(m, compressedData, decoded, t) ==
    IF decoded.ok
    THEN [ret |-> [kind |-> "decompress", input |-> compressedData,
                   ok |-> TRUE, value |-> decoded.value],
          metrics |-> [m EXCEPT !.decompressionTime = t,
                                !.originalSize = Len(decoded.value),
                                !.compressedSize = Len(compressedData)]]
    ELSE [ret |-> [kind |-> "decompress", input |-> compressedData,
                   ok |-> FALSE, value |-> "DecompressionFailed"],
          metrics |-> m]

\* decompress taking the time before it knows that the decode succeeded.
decompressOutcomeTimed(m, compressedData, decoded, t) ==
    IF decoded.ok
    THEN [ret |-> [kind |-> "decompress", input |-> compressedData,
                   ok |-> TRUE, value |-> decoded.value],
          metrics |-> [m EXCEPT !.decompressionTime = t]]
    ELSE [ret |-> [kind |-> "decompress", input |-> compressedData,
                   ok |-> FALSE, value |-> "DecompressionFailed"],
          metrics |-> [m EXCEPT !.decompressionTime = t]]

decompressOutcome(m, compressedData, decoded, t) ==
    IF decoded.ok
    THEN [ret |-> [kind |-> "decompress", input |-> compressedData,
                   ok |-> TRUE, value |-> decoded.value],
          metrics |-> [m EXCEPT !.decompressionTime = t]]
    ELSE [ret |-> [kind |-> "decompress", input |-> compressedData,
                   ok |-> FALSE, value |-> "DecompressionFailed"],
          metrics |-> m]

decompress ==
    \E compressedData \in
           BufferInputs \cup {call[c].result : c \in {k \in Calls : call[k].pc = "returned"}},
       t \in Elapsed :
       \E decoded \in brotliDecompress(compressedData) :
          LET after == decompressOutcome(performanceMetrics, compressedData, decoded, t)
          IN /\ ret' = after.ret
             /\ performanceMetrics' = after.metrics
             /\ UNCHANGED <<call, lastOk>>

\* The ratio without the guard on the denominator.
compressionRatioUnguarded(m) == <<m.originalSize, m.compressedSize>>

\* compressionRatio as the fraction <<numerator, denominator>>.
\* `x || 1` is 1 when x is 0.
compressionRatio(m) ==
    <<m.originalSize, IF m.compressedSize = 0 THEN 1 ELSE m.compressedSize>>

getMetrics ==
    /\ ret' = [kind |-> "getMetrics", input |-> <<>>, ok |-> TRUE,
               value |-> [compressionTime |-> performanceMetrics.compressionTime,
                          decompressionTime |-> performanceMetrics.decompressionTime,
                          originalSize |-> performanceMetrics.originalSize,
                          compressedSize |-> performanceMetrics.compressedSize,
                          compressionRatio |-> compressionRatio(performanceMetrics)]]
    /\ UNCHANGED <<call, performanceMetrics, lastOk>>

\* The caller raises a cancellation signal for a call suspended at a yield.
\* No parameter or field of BrotliProcessor carries one: the frame only
\* remembers that it was raised.
Cancel(c) ==
    /\ call[c].pc = "yield"
    /\ ~call[c].cancel
    /\ call' = [call EXCEPT ![c].cancel = TRUE]
    /\ UNCHANGED <<performanceMetrics, ret, lastOk>>

\* The caller is done with a settled call: it keeps neither the promise nor
\* the artifact.
Forget(c) ==
    /\ call[c].pc \in {"returned", "rejected"}
    /\ call' = [call EXCEPT ![c] = IdleCall]
    /\ UNCHANGED <<performanceMetrics, ret, lastOk>>

\* Operations that do not overlap: one call of compressWithProgress at a
\* time, decompress and getMetrics between calls.
Next ==
    \/ NoneInFlight /\ compressWithProgress(1)
    \/ streamCompress(1)
    \/ compressWithProgressResume(1)
    \/ Cancel(1)
    \/ Forget(1)
    \/ NoneInFlight /\ decompress
    \/ NoneInFlight /\ getMetrics

Spec == Init /\ [][Next]_vars

\* Overlapping calls: the caller makes a call while others are suspended,
\* and reads the metrics at any time.  The calls are chunked or one-shot
\* compressions of the longest sample buffers, with a progress callback.
OverlapDataInputs ==
    {d \in DataInputs :
        /\ Len(d) >= MaxLen - 1
        /\ \A k \in 1..Len(d) : d[k] = (k - 1) % (ByteMax + 1)}
OverlapOptionInputs ==
    { [quality |-> 9, mode |-> 1, chunkSize |-> s, lgwin |-> 22] :
          s \in {MaxLen - 2} }

NextOverlap ==
    \/ \E c \in Calls :
          \/ compressWithProgressOf(c, OverlapDataInputs, OverlapOptionInputs,
                                    {TRUE})
          \/ streamCompress(c)
          \/ compressWithProgressResume(c)
          \/ Forget(c)
    \/ getMetrics

SpecOverlap == Init /\ [][NextOverlap]_vars

\* ---------------------------------------------------------------- claims
\* The option ranges of the documentation and a positive chunk size.
ValidConfig(r) ==
    /\ r.quality \in MinQuality..MaxQuality
    /\ r.mode \in 0..MaxMode
    /\ r.lgwin \in MinLgwin..MaxLgwin
    /\ r.chunkSize > 0

\* decompress was the last API call and was given the artifact of call c.
DecompressedArtifactOf(c) ==
    /\ call[c].pc = "returned"
    /\ ret.kind = "decompress"
    /\ ret.input = call[c].result

Last(q) == q[Len(q)]

\* C1: when a call with a valid configuration and len(data) <= chunkSize
\* has returned its artifact, decompress of that artifact succeeds and
\* returns exactly data.
OneShotRoundTrip ==
    \A c \in Calls :
        (DecompressedArtifactOf(c) /\ ValidConfig(call[c])
            /\ Len(call[c].data) <= call[c].chunkSize)
        => (ret.ok /\ ret.value = call[c].data)

OneShotRoundTripWitness ==
    \E c \in Calls :
        /\ DecompressedArtifactOf(c) /\ ValidConfig(call[c])
        /\ Len(call[c].data) = call[c].chunkSize
        /\ Len(call[c].data) >= 2
        /\ call[c].data[1] # call[c].data[2]
        /\ ret.ok

\* C2: when a call that took the chunked path (len(data) > chunkSize > 0)
\* has returned its artifact, decompress of that artifact succeeds and
\* returns exactly data.
ChunkedRoundTrip ==
    \A c \in Calls :
        (DecompressedArtifactOf(c) /\ ValidConfig(call[c])
            /\ Len(call[c].data) > call[c].chunkSize)
        => (ret.ok /\ ret.value = call[c].data)

\* C3: a call whose quality, mode, lgwin or chunkSize is out of range is
\* rejected with InvalidConfiguration and no encode call is made for it.
InvalidConfigurationRejected ==
    \A c \in Calls :
        (call[c].pc # "idle" /\ ~ValidConfig(call[c]))
        => /\ call[c].pc = "rejected"
           /\ call[c].error = "InvalidConfiguration"
           /\ call[c].encodeLog = <<>>

EncodeFailed(r) == \E k \in 1..Len(r.encodeLog) : r.encodeLog[k].failed

\* C4: a step of a call that does not fulfil it leaves the metrics as they
\* are; once an encode of the call has failed the call is on its way to
\* rejection or rejected with CompressionFailed and no artifact, and no
\* further encode is made for it.
FailureIsolation ==
    [][\A c \in Calls :
          /\ (call'[c] # call[c] /\ call'[c].pc # "returned")
                => performanceMetrics' = performanceMetrics
          /\ EncodeFailed(call'[c])
                => /\ call'[c].pc \in {"settling", "rejected"}
                   /\ call'[c].pc = "settling" => ~call'[c].settled.ok
                   /\ call'[c].pc = "rejected"
                         => /\ call'[c].error = "CompressionFailed"
                            /\ call'[c].result = <<>>
                   /\ Last(call'[c].encodeLog).failed
          /\ (EncodeFailed(call[c]) /\ call'[c].pc # "idle")
                => call'[c].encodeLog = call[c].encodeLog]_vars

\* Chunk 2 of 3 failed after an earlier call had succeeded: the metrics
\* still show the earlier call.
FailureIsolationWitness ==
    \E c \in Calls :
        /\ call[c].pc = "rejected"
        /\ Len(call[c].data) = 3
        /\ call[c].chunkSize = 1
        /\ Len(call[c].encodeLog) = 2
        /\ performanceMetrics.originalSize = 1
        /\ performanceMetrics.compressionTime > 0

\* C5: originalSize and compressedSize are 0 and 0 before any call is
\* fulfilled, and afterwards the input length and the artifact length of
\* the most recently fulfilled call.
MetricsOverwrite ==
    /\ performanceMetrics.originalSize = lastOk.originalSize
    /\ performanceMetrics.compressedSize = lastOk.compressedSize
    /\ lastOk.calls = 0
          => performanceMetrics.originalSize = 0
             /\ performanceMetrics.compressedSize = 0

\* A second fulfilled call, smaller than some call before it could be.
MetricsOverwriteWitness ==
    /\ lastOk.calls = 2
    /\ call[1].pc = "returned"
    /\ Len(call[1].data) = 1
    /\ performanceMetrics.originalSize = 1

\* C6: in a chunked call with a progress callback every reported fraction
\* lies in [0, 1], the fractions never decrease, and when the call has
\* returned the last reported fraction is 1.
ProgressMonotone ==
    \A c \in Calls :
        LET ev == call[c].events
        IN /\ \A k \in 1..Len(ev) :
                  /\ FracLeq(<<0, 1>>, ev[k].progress)
                  /\ FracLeq(ev[k].progress, One)
                  /\ k > 1 => FracLeq(ev[k - 1].progress, ev[k].progress)
           /\ (call[c].pc = "returned" /\ ev # <<>>)
                  => (FracLeq(One, Last(ev).progress)
                      /\ FracLeq(Last(ev).progress, One))

CeilDiv(a, b) == (a + b - 1) \div b

\* C7: for len(data) > chunkSize > 0 the k-th encode call of the chunked
\* path is on data[(k-1)*chunkSize, min(k*chunkSize, len)): the ranges start
\* at 0, each starts where the one before ends, all but the last have
\* length chunkSize, the last has a length in (0, chunkSize], and a call
\* that returned made ceil(len/chunkSize) of them, ending at len.
ChunkRanges ==
    \A c \in Calls :
        LET r == call[c]
            log == r.encodeLog
            len == Len(r.data)
            n == CeilDiv(len, r.chunkSize)
        IN (r.chunkSize > 0 /\ len > r.chunkSize)
           => /\ Len(log) <= n
              /\ \A k \in 1..Len(log) :
                    /\ log[k].from = (k - 1) * r.chunkSize
                    /\ log[k].to = Min(k * r.chunkSize, len)
                    /\ log[k].bytes = SubSeq(r.data, log[k].from + 1, log[k].to)
                    /\ k = 1 => log[k].from = 0
                    /\ k > 1 => log[k].from = log[k - 1].to
                    /\ k < n => log[k].to - log[k].from = r.chunkSize
                    /\ k = n => /\ log[k].to - log[k].from \in 1..r.chunkSize
                                /\ log[k].to = len
              /\ r.pc = "returned" => Len(log) = n

\* 3 bytes in chunks of 2: [0,2) and [2,3).
ChunkRangesWitness ==
    \E c \in Calls :
        /\ call[c].pc = "returned"
        /\ Len(call[c].data) = 3
        /\ call[c].chunkSize = 2
        /\ Len(call[c].encodeLog) = 2
        /\ call[c].encodeLog[2].to - call[c].encodeLog[2].from = 1

\* The frame of a call with the arguments of r that has not started yet.
Arguments(r, chunkSize) ==
    [IdleCall EXCEPT !.data = r.data, !.quality = r.quality, !.mode = r.mode,
                     !.chunkSize = chunkSize, !.lgwin = r.lgwin,
                     !.progressCallback = r.progressCallback]

\* C8: a call with len(data) <= chunkSize is never suspended; it makes one
\* encode call, on the whole buffer with its mode, quality and lgwin, calls
\* the progress callback zero times, returns the output of that encode
\* call, and ends as the same call with chunkSize = len(data) + 1 ends.
OneShotAtBoundary ==
    \A c \in Calls :
        LET r == call[c]
            len == Len(r.data)
        IN (r.pc # "idle" /\ len <= r.chunkSize)
           => /\ r.pc \in {"returned", "rejected"}
              /\ Len(r.encodeLog) = 1
              /\ r.encodeLog[1].from = 0 /\ r.encodeLog[1].to = len
              /\ r.encodeLog[1].bytes = r.data
              /\ r.encodeLog[1].mode = r.mode
              /\ r.encodeLog[1].quality = r.quality
              /\ r.encodeLog[1].lgwin = r.lgwin
              /\ r.events = <<>>
              /\ r.pc = "returned" <=> ~r.encodeLog[1].failed
              /\ r.pc = "returned" => r.result = brotliCompress(r.data)
              /\ \A t \in Elapsed :
                    LET other == compressEnter(Arguments(r, len + 1),
                                               performanceMetrics,
                                               r.encodeLog[1].failed, t).call
                    IN r = [other EXCEPT !.chunkSize = r.chunkSize]

\* len(data) = chunkSize = 2 with a progress callback.
OneShotAtBoundaryWitness ==
    \E c \in Calls :
        /\ call[c].pc = "returned"
        /\ Len(call[c].data) = 2
        /\ call[c].chunkSize = 2
        /\ call[c].progressCallback

\* C9: a getMetrics call returns the four stored fields and
\* compressionRatio = originalSize / max(compressedSize, 1), and leaves
\* performanceMetrics as it is.
GetMetricsRatio ==
    [][(ret'.kind = "getMetrics" /\ call' = call)
          => /\ performanceMetrics' = performanceMetrics
             /\ ret'.value.compressionTime = performanceMetrics.compressionTime
             /\ ret'.value.decompressionTime = performanceMetrics.decompressionTime
             /\ ret'.value.originalSize = performanceMetrics.originalSize
             /\ ret'.value.compressedSize = performanceMetrics.compressedSize
             /\ ret'.value.compressionRatio =
                    <<performanceMetrics.originalSize,
                      Max(performanceMetrics.compressedSize, 1)>>]_vars

\* getMetrics on a processor whose compressedSize is 0.
GetMetricsRatioWitness ==
    /\ ret.kind = "getMetrics"
    /\ ret.value.compressedSize = 0
    /\ ret.value.compressionRatio = <<0, 1>>

\* C10: once the cancellation signal of a call is raised, no further chunk
\* of it is encoded, it does not return an artifact and its steps leave
\* the metrics as they are.
CancellationObserved ==
    [][\A c \in Calls :
          (call[c].cancel /\ call'[c] # call[c] /\ call'[c].pc # "idle")
          => /\ call'[c].encodeLog = call[c].encodeLog
             /\ call'[c].pc # "returned"
             /\ performanceMetrics' = performanceMetrics]_vars

\* C11: a decompress call whose decode rejects the buffer fails with
\* DecompressionFailed, returns no bytes and leaves all four metrics fields
\* as they were.
DecompressFailureIsolation ==
    [][(ret'.kind = "decompress" /\ ~ret'.ok /\ call' = call)
          => /\ ret'.value = "DecompressionFailed"
             /\ DecodeError \in brotliDecompress(ret'.input)
             /\ performanceMetrics' = performanceMetrics]_vars

\* A truncated buffer is rejected after an earlier decompress succeeded.
DecompressFailureIsolationWitness ==
    /\ ret.kind = "decompress"
    /\ ~ret.ok
    /\ ret.input # <<>>
    /\ performanceMetrics.decompressionTime > 0

RECURSIVE EncodedLength(_, _)
\* Total length of the outputs of the first k encode calls of a log.
EncodedLength(log, k) ==
    IF k = 0 THEN 0
    ELSE EncodedLength(log, k - 1) + Len(brotliCompress(log[k].bytes))

\* C12: the artifact a chunked call returns is the output of its first
\* encode call, then of its second, ... up to its last, each made with the
\* mode, quality and lgwin of the call, with nothing before, between or
\* after them: its length is the sum of the output lengths.
ChunkedArtifact ==
    \A c \in Calls :
        LET r == call[c]
            log == r.encodeLog
        IN (r.pc = "returned" /\ Chunked(r))
           => /\ Len(log) = Len(r.chunks)
              /\ Len(r.result) = EncodedLength(log, Len(log))
              /\ \A k \in 1..Len(log) :
                    /\ ~log[k].failed
                    /\ log[k].mode = r.mode
                    /\ log[k].quality = r.quality
                    /\ log[k].lgwin = r.lgwin
                    /\ SubSeq(r.result, EncodedLength(log, k - 1) + 1,
                              EncodedLength(log, k))
                          = brotliCompress(log[k].bytes)

\* <<0, 1, 0>> in chunks of 2: two outputs of different lengths.
ChunkedArtifactWitness ==
    \E c \in Calls :
        /\ call[c].pc = "returned"
        /\ call[c].data = <<0, 1, 0>>
        /\ call[c].chunkSize = 2
        /\ Len(call[c].result) = 5

\* C13: a step of a chunked call makes at most one encode call; it makes
\* one only when the call is entered or resumed from the yield after the
\* chunk before, on the slice at the next loop index; the callback, when
\* there is one, is called in that same step, once, and only after an
\* encode that succeeded; the call is then suspended at the yield, and it
\* is suspended at a yield only after an encode of its own.
ChunkEventOrder ==
    [][\A c \in Calls :
          LET r == call[c]
              q == call'[c]
              grew == Len(q.encodeLog) - Len(r.encodeLog)
          IN (q # r /\ q.pc # "idle" /\ Chunked(q))
             => /\ grew \in {0, 1}
                /\ grew = 0 => (q.events = r.events /\ q.chunks = r.chunks)
                /\ grew = 1
                      => /\ r.pc \in {"idle", "yield"}
                         /\ q.i = (IF r.pc = "idle" THEN 0 ELSE r.i + q.chunkSize)
                         /\ Last(q.encodeLog).bytes
                               = slice(q.data, q.i, q.i + q.chunkSize).bytes
                         /\ Last(q.encodeLog).failed
                               => (q.pc = "settling" /\ q.events = r.events
                                   /\ q.chunks = r.chunks)
                         /\ ~Last(q.encodeLog).failed
                               => /\ q.pc = "yield"
                                  /\ Len(q.chunks) = Len(r.chunks) + 1
                                  /\ Len(q.events) = Len(r.events)
                                        + (IF q.progressCallback THEN 1 ELSE 0)
                /\ q.pc = "yield" => (grew = 1 \/ r.pc = "yield")
                /\ q.pc = "yield"
                      => (q.encodeLog # <<>> /\ ~Last(q.encodeLog).failed
                          /\ Len(q.chunks) = Len(q.encodeLog))]_vars

\* Suspended after the second chunk, two callbacks made.
ChunkEventOrderWitness ==
    \E c \in Calls :
        /\ call[c].pc = "yield"
        /\ call[c].chunkSize = 1
        /\ Len(call[c].data) = 3
        /\ Len(call[c].encodeLog) = 2
        /\ Len(call[c].events) = 2

FracEq(p, q) == p[1] * q[2] = q[1] * p[2]

RECURSIVE SlicedLength(_, _)
\* Input bytes in the slices of the first k encode calls of a log.
SlicedLength(log, k) ==
    IF k = 0 THEN 0
    ELSE SlicedLength(log, k - 1) + (log[k].to - log[k].from)

DecompressFrame ==
    [][(ret'.kind = "decompress" /\ ret'.ok /\ call' = call)
          => /\ [ok |-> TRUE, value |-> ret'.value] \in brotliDecompress(ret'.input)
             /\ performanceMetrics'.decompressionTime \in Elapsed
             /\ performanceMetrics'.compressionTime
                   = performanceMetrics.compressionTime
             /\ performanceMetrics'.originalSize = performanceMetrics.originalSize
             /\ performanceMetrics'.compressedSize
                   = performanceMetrics.compressedSize
             /\ compressionRatio(performanceMetrics')
                   = compressionRatio(performanceMetrics)]_vars

\* decompress of the artifact of a 3-byte one-shot compression.
DecompressFrameWitness ==
    /\ ret.kind = "decompress"
    /\ ret.ok
    /\ Len(ret.value) = 3
    /\ performanceMetrics.originalSize = 3
    /\ performanceMetrics.compressedSize = 4
    /\ performanceMetrics.decompressionTime > 0

\* C16: every time a suspended call is resumed its loop index moves
\* strictly closer to the input length (so the call completes after
\* finitely many resumptions).
LoopIndexAdvances ==
    [][\A c \in Calls :
          (call[c].pc = "yield" /\ call'[c] # call[c]
              /\ call'[c].cancel = call[c].cancel)
          => /\ call'[c].i > call[c].i
             /\ Len(call'[c].data) - call'[c].i < Len(call[c].data) - call[c].i]_vars

\* C17: with calls overlapping at their yields, after every step
\* originalSize and compressedSize are the input length and the artifact
\* length of one fulfilled call, the most recently fulfilled one (0 and 0
\* before any), and a getMetrics call returns that same pair.
MetricsAtomic ==
    [][/\ performanceMetrics'.originalSize = lastOk'.originalSize
       /\ performanceMetrics'.compressedSize = lastOk'.compressedSize
       /\ \A c \in Calls :
             (call'[c].pc = "returned" /\ call[c].pc # "returned")
             => /\ performanceMetrics'.originalSize = Len(call'[c].data)
                /\ performanceMetrics'.compressedSize = Len(call'[c].result)
       /\ (ret'.kind = "getMetrics" /\ call' = call)
             => /\ ret'.value.originalSize = lastOk.originalSize
                /\ ret'.value.compressedSize = lastOk.compressedSize]_vars

\* getMetrics after a call that was made while another call was suspended
\* has returned, with that other call, on input of another length, still
\* suspended.
MetricsAtomicWitness ==
    \E c, k \in Calls :
        /\ call[c].pc = "returned"
        /\ call[c].overlapped
        /\ call[k].pc = "yield"
        /\ Len(call[k].data) # Len(call[c].data)
        /\ ret.kind = "getMetrics"
        /\ ret.value.originalSize = Len(call[c].data)
        /\ ret.value.compressedSize = Len(call[c].result)

RECURSIVE RunAlone(_)
\* The frame of a call resumed until streamCompress settles, no encode
\* failing and nothing else running.
RunAlone(r) ==
    IF r.pc = "yield"
    THEN RunAlone(streamCompressStep([r EXCEPT !.i = @ + r.chunkSize], FALSE))
    ELSE r

\* The frame in which the call with the arguments of r ends when it runs
\* alone on a fresh processor.
Alone(r) ==
    LET m == [compressionTime |-> 0, decompressionTime |-> 0,
              originalSize |-> 0, compressedSize |-> 0]
        entered == compressEnter(Arguments(r, r.chunkSize), m, FALSE, 1).call
        settled == RunAlone(entered)
    IN IF settled.pc = "settling" THEN compressResume(settled, m, 1).call
       ELSE settled

IsPrefix(p, q) == Len(p) <= Len(q) /\ p = SubSeq(q, 1, Len(p))

\* C18: with calls overlapping at their yields, the chunks a call has
\* collected and the progress events it has delivered are at every moment
\* the first ones of the same call run alone, and a call that returns
\* returns the artifact, with all the events, of the same call run alone.
NoInterference ==
    \A c \in Calls :
        LET r == call[c]
        IN (r.pc # "idle" /\ r.chunkSize > 0)
           => /\ IsPrefix(r.chunks, Alone(r).chunks)
              /\ IsPrefix(r.events, Alone(r).events)
              /\ r.pc = "returned"
                    => /\ r.result = Alone(r).result
                       /\ r.chunks = Alone(r).chunks
                       /\ r.events = Alone(r).events

\* Two calls on different inputs, one made while the other was suspended,
\* have both encoded all their chunks and one has returned.
NoInterferenceWitness ==
    \E c, k \in Calls :
        /\ call[c].pc = "returned"
        /\ call[k].pc = "settling"
        /\ call[k].settled.ok
        /\ call[k].overlapped
        /\ call[c].data # call[k].data
        /\ Len(call[c].chunks) >= 2
        /\ Len(call[k].chunks) >= 2

RECURSIVE ReportedSize(_, _)
\* Sum of the sizes given to the first k callbacks.
ReportedSize(events, k) ==
    IF k = 0 THEN 0 ELSE ReportedSize(events, k - 1) + events[k].size

\* C19: when a chunked call with a progress callback has returned, the
\* sizes given to its callbacks add up to the length of its artifact and to
\* the compressedSize metric, and it made ceil(len / chunkSize) callbacks.
ReportedSizesAddUp ==
    \A c \in Calls :
        LET r == call[c]
        IN (r.pc = "returned" /\ Chunked(r) /\ r.progressCallback)
           => /\ ReportedSize(r.events, Len(r.events)) = Len(r.result)
              /\ ReportedSize(r.events, Len(r.events))
                    = performanceMetrics.compressedSize
              /\ Len(r.events) = (IF r.chunkSize > 0
                                  THEN CeilDiv(Len(r.data), r.chunkSize)
                                  ELSE 0)

\* 3 bytes in chunks of 2: callbacks with 3 and 2, artifact of 5 bytes.
ReportedSizesAddUpWitness ==
    \E c \in Calls :
        /\ call[c].pc = "returned"
        /\ call[c].progressCallback
        /\ Len(call[c].data) = 3
        /\ call[c].chunkSize = 2
        /\ Len(call[c].events) = 2
        /\ performanceMetrics.compressedSize = 5

====
